---- MODULE Spec2Model ----
(***************************************************************************)
(* cursor-task-master: the task store (tasks.json), the dependency         *)
(* predicate and next-task selector of lib/utils.js, and the set-status    *)
(* and init commands of lib/taskManager.js / bin/cursor-task.js.           *)
(*                                                                         *)
(* A task is a record whose optional JSON members (priority, dependencies, *)
(* subtasks) are optional record fields: "absent" is "not in DOMAIN".      *)
(***************************************************************************)
EXTENDS Integers, Sequences, FiniteSets, TLC

VARIABLES tasksFile,  \* tasks.json on disk: NoFile or [exists, tasks, metadata]
          mem,        \* the task array a caller of the utils functions holds
          clock,      \* the wall clock read by new Date(); each command
                      \* (a process of its own) runs at a later instant
          call,       \* the last invocation: operation and arguments
          outcome     \* what that invocation returned, printed and wrote

vars == <<tasksFile, mem, clock, call, outcome>>

----------------------------------------------------------------------------
(* Bounds *)

MaxTasks == 2      \* tasks in a collection
MaxDeps == 2       \* length of a dependencies array
MaxSubtasks == 1   \* subtasks of a task
MaxTokens == 2     \* tokens in one --id list
MaxClock == 1      \* instants after 0 at which a command runs
MaxRankDepId == 1  \* ids 1..MaxRankDepId are depended on where tasks are ranked
MaxFlowDeps == 1   \* length of a dependencies array where commands follow one another
MaxSteps == 2      \* commands that follow one another on a store with dependencies
MaxStoreSteps == 3 \* commands that follow one another from cursor-task init on

\* One id more than there can be tasks: some id is always dangling.
MaxId == MaxTasks + 1

Ids == 1..MaxId

----------------------------------------------------------------------------
(* Values *)

Statuses == {"pending", "in-progress", "done"}
Priorities == {"low", "medium", "high"}

Null == [null |-> TRUE]            \* JavaScript null
Undefined == [undefined |-> TRUE]  \* JavaScript undefined
NoFile == [exists |-> FALSE]       \* tasks.json does not exist
NoCall == [op |-> "none"]

Has(r, f) == f \in DOMAIN r

SeqsUpTo(S, n) == UNION {[1..k -> S] : k \in 0..n}

InjectiveSeqs(S, n) == {s \in [1..n -> S] : \A i, j \in 1..n : s[i] = s[j] => i = j}

\* r extended with the optional member f, absent or one of vals.
Optional(R, f, vals) == R \cup {r @@ (f :> v) : r \in R, v \in vals}

Subtask(i, st) == [id |-> i, status |-> st]

SubtaskSeqs == UNION {{[i \in 1..k |-> Subtask(i, sts[i])] : sts \in [1..k -> Statuses]} :
                      k \in 0..MaxSubtasks}

\* c is a sequence of at most maxLen tasks with pairwise distinct ids from
\* Ids and bodies drawn from Bodies.
IsCollection(c, Bodies, maxLen) ==
    \E n \in 0..maxLen :
        \E ids \in InjectiveSeqs(Ids, n) :
            \E body \in [1..n -> Bodies] :
                c = [i \in 1..n |-> body[i] @@ ("id" :> ids[i])]

----------------------------------------------------------------------------
(* lib/utils.js: areDependenciesSatisfied, getNextTask *)

\* Array.prototype.find(t => t.id === id): the first match or undefined.
FindById(tasks, id) ==
    IF \E i \in 1..Len(tasks) : tasks[i].id = id
    THEN tasks[CHOOSE i \in 1..Len(tasks) :
                 /\ tasks[i].id = id
                 /\ \A j \in 1..(i - 1) : tasks[j].id # id]
    ELSE Undefined

\* Mutant: some dependency done is enough.
areDependenciesSatisfied_Some(task, allTasks) ==
    IF ~Has(task, "dependencies") \/ Len(task.dependencies) = 0
    THEN TRUE
    ELSE \E k \in 1..Len(task.dependencies) :
            LET dependency == FindById(allTasks, task.dependencies[k])
            IN  /\ dependency # Undefined
                /\ dependency.status = "done"

\* Mutant: a dependency that is not found is passed over.
areDependenciesSatisfied_SkipMissing(task, allTasks) ==
    IF ~Has(task, "dependencies") \/ Len(task.dependencies) = 0
    THEN TRUE
    ELSE \A k \in 1..Len(task.dependencies) :
            LET dependency == FindById(allTasks, task.dependencies[k])
            IN  \/ dependency = Undefined
                \/ dependency.status = "done"

\* Mutant: a dependency that is in progress counts as met.
areDependenciesSatisfied_Started(task, allTasks) ==
    IF ~Has(task, "dependencies") \/ Len(task.dependencies) = 0
    THEN TRUE
    ELSE \A k \in 1..Len(task.dependencies) :
            LET dependency == FindById(allTasks, task.dependencies[k])
            IN  /\ dependency # Undefined
                /\ dependency.status \in {"done", "in-progress"}

areDependenciesSatisfied(task, allTasks) ==
    IF ~Has(task, "dependencies") \/ Len(task.dependencies) = 0
    THEN TRUE
    ELSE \A k \in 1..Len(task.dependencies) :
            LET dependency == FindById(allTasks, task.dependencies[k])
            IN  /\ dependency # Undefined
                /\ dependency.status = "done"

priorityValues == [high |-> 3, medium |-> 2, low |-> 1]

\* priorityValues[a.priority] || priorityValues.medium
priorityOf(a) ==
    IF Has(a, "priority") /\ a.priority \in DOMAIN priorityValues
    THEN priorityValues[a.priority]
    ELSE priorityValues["medium"]

\* a.dependencies ? a.dependencies.length : 0
depCount(a) == IF Has(a, "dependencies") THEN Len(a.dependencies) ELSE 0

\* Mutant: the priority difference taken the other way round.
compareTasks_LowFirst(a, b) ==
    IF priorityOf(b) # priorityOf(a) THEN priorityOf(a) - priorityOf(b)
    ELSE IF depCount(a) # depCount(b) THEN depCount(a) - depCount(b)
    ELSE a.id - b.id

\* The comparator handed to sort: negative when a goes before b.
compareTasks(a, b) ==
    IF priorityOf(b) # priorityOf(a) THEN priorityOf(b) - priorityOf(a)
    ELSE IF depCount(a) # depCount(b) THEN depCount(a) - depCount(b)
    ELSE a.id - b.id

\* x put into the sorted s behind every element that does not sort after it.
InsertSorted(s, x) ==
    LET later == {i \in 1..Len(s) : compareTasks(s[i], x) > 0}
        pos == IF later = {} THEN Len(s) + 1
               ELSE CHOOSE i \in later : \A j \in later : i <= j
    IN  SubSeq(s, 1, pos - 1) \o <<x>> \o SubSeq(s, pos, Len(s))

\* Array.prototype.sort with compareTasks (a stable sort).
RECURSIVE sortTasks(_)
sortTasks(s) ==
    IF s = <<>> THEN <<>>
    ELSE InsertSorted(sortTasks(SubSeq(s, 1, Len(s) - 1)), s[Len(s)])

\* Mutant: only pending tasks are candidates.
isAvailable_PendingOnly(task, tasks) ==
    /\ task.status = "pending"
    /\ areDependenciesSatisfied(task, tasks)

\* Mutant: the dependencies are not looked at.
isAvailable_AnyDependencies(task, tasks) ==
    task.status = "pending" \/ task.status = "in-progress"

isAvailable(task, tasks) ==
    /\ task.status = "pending" \/ task.status = "in-progress"
    /\ areDependenciesSatisfied(task, tasks)

\* tasks.filter(...): a new array, the input is not touched.
availableTasks(tasks) == SelectSeq(tasks, LAMBDA t : isAvailable(t, tasks))

\* Mutant: the argument itself is sorted.
getNextTask_SortInPlace(tasks) ==
    LET available == availableTasks(tasks)
    IN  [value |-> IF Len(available) = 0 THEN Null ELSE sortTasks(available)[1],
         tasks |-> sortTasks(tasks)]

\* The value returned and the input array as the call leaves it: sort works
\* on the array filter made, never on the argument.
getNextTask(tasks) ==
    LET available == availableTasks(tasks)
    IN  [value |-> IF Len(available) = 0 THEN Null ELSE sortTasks(available)[1],
         tasks |-> tasks]

----------------------------------------------------------------------------
(* Calls of the selector on a collection held in memory *)

SelectBodies ==
    Optional(Optional([status : Statuses], "priority", Priorities),
             "dependencies", SeqsUpTo(Ids, MaxDeps))

InitSelect ==
    /\ tasksFile = NoFile
    /\ IsCollection(mem, SelectBodies, MaxTasks)
    /\ clock = 0
    /\ call = NoCall
    /\ outcome = [value |-> Null]

GetNextTask ==
    /\ call' = [op |-> "getNextTask"]
    /\ outcome' = [value |-> getNextTask(mem).value]
    /\ mem' = getNextTask(mem).tasks
    /\ UNCHANGED <<tasksFile, clock>>

AreDependenciesSatisfied ==
    \E i \in 1..Len(mem) :
        /\ call' = [op |-> "areDependenciesSatisfied", index |-> i]
        /\ outcome' = [value |-> areDependenciesSatisfied(mem[i], mem)]
        /\ UNCHANGED <<tasksFile, mem, clock>>

NextSelect == GetNextTask \/ AreDependenciesSatisfied

SpecSelect == InitSelect /\ [][NextSelect]_vars

\* Ranking needs two candidates and a done task they depend on: one task
\* more, and dependencies (repeated ones too) on the first ids only.
RankBodies ==
    Optional(Optional([status : Statuses], "priority", Priorities),
             "dependencies", SeqsUpTo(1..MaxRankDepId, MaxDeps))

InitRank ==
    /\ tasksFile = NoFile
    /\ IsCollection(mem, RankBodies, MaxTasks + 1)
    /\ clock = 0
    /\ call = NoCall
    /\ outcome = [value |-> Null]

SpecRank == InitRank /\ [][GetNextTask]_vars

----------------------------------------------------------------------------
(* ID tokens and their parsing *)

\* A token is the sequence of its characters.
DigitValue == ("0" :> 0) @@ ("1" :> 1) @@ ("2" :> 2) @@ ("3" :> 3) @@ ("4" :> 4) @@
              ("5" :> 5) @@ ("6" :> 6) @@ ("7" :> 7) @@ ("8" :> 8) @@ ("9" :> 9)

DigitChar(n) == CHOOSE c \in DOMAIN DigitValue : DigitValue[c] = n

BareToken(n) == <<DigitChar(n)>>
DottedToken(p, s) == <<DigitChar(p), ".", DigitChar(s)>>
MalformedToken == <<"x">>

BareTokens == {BareToken(n) : n \in Ids}
DottedTokens == {DottedToken(p, s) : p \in Ids, s \in 1..(MaxSubtasks + 1)}
Tokens == BareTokens \cup DottedTokens \cup {MalformedToken}

NaN == [nan |-> TRUE, n |-> 0]
Number(n) == [nan |-> FALSE, n |-> n]

\* The value of a sequence of digits, base 10.
RECURSIVE DigitsValue(_)
DigitsValue(ds) ==
    IF ds = <<>> THEN 0
    ELSE 10 * DigitsValue(SubSeq(ds, 1, Len(ds) - 1)) + DigitValue[ds[Len(ds)]]

\* parseInt(token, 10): the number written by the longest prefix of digits,
\* NaN when the token does not start with a digit.
parseInt10(token) ==
    LET stops == {k \in 1..Len(token) : token[k] \notin DOMAIN DigitValue}
        n == IF stops = {} THEN Len(token)
             ELSE (CHOOSE k \in stops : \A j \in stops : k <= j) - 1
    IN  IF n = 0 THEN NaN ELSE Number(DigitsValue(SubSeq(token, 1, n)))

\* ids.includes(id) for a number id that is not NaN.
includes(ids, id) == \E k \in 1..Len(ids) : ~ids[k].nan /\ ids[k].n = id

----------------------------------------------------------------------------
(* lib/taskManager.js: initializeTaskSystem, setTaskStatus *)

validStatuses == <<"pending", "in-progress", "done">>

\* r with its member f set to v (added when absent).
SetMember(r, f, v) == (f :> v) @@ r

Returned(stream, message, count, wrote) ==
    [completion |-> "returned", stream |-> stream, message |-> message,
     count |-> count, wrote |-> wrote]

Threw(message) ==
    [completion |-> "threw", stream |-> "stderr", message |-> message,
     count |-> 0, wrote |-> FALSE]

CorruptFile == [exists |-> TRUE, parses |-> FALSE]  \* tasks.json is not JSON

Document(tasks, created, lastUpdated) ==
    [exists |-> TRUE, parses |-> TRUE, tasks |-> tasks,
     metadata |-> [created |-> created, lastUpdated |-> lastUpdated,
                   version |-> "1.0.0"]]

\* A call of a name that taskManager.js takes from require('./utils') and the
\* module.exports of utils.js does not hold: the name is undefined and the
\* call throws a TypeError; a build whose utils.js defines the helper returns
\* from it.
MissingHelperOutcomes == {"threw", "returned"}

\* Mutant: every task gets the id 1.
InitialTask_SameId(index, now) ==
    [id |-> 1, status |-> "pending", priority |-> "medium",
     dependencies |-> <<>>, subtasks |-> <<>>, updatedAt |-> now]

\* The task initializeTaskSystem makes of the requirement at 0-based index.
InitialTask(index, now) ==
    [id |-> index + 1, status |-> "pending", priority |-> "medium",
     dependencies |-> <<>>, subtasks |-> <<>>, updatedAt |-> now]

\* initializeTaskSystem with a PRD of n requirement lines (n = 0 also stands
\* for no PRD): the file is written whatever was there.
initializeTaskSystem(n, now) ==
    [file |-> Document([i \in 1..n |-> InitialTask(i - 1, now)], now, now),
     out |-> Returned("stdout", "tasks-file-created", n, TRUE)]

\* Mutant: the subtasks of a task named follow its status.
updateTasks_SubtasksToo(tasks, ids, status, now) ==
    [i \in 1..Len(tasks) |->
        IF includes(ids, tasks[i].id)
        THEN SetMember(
                 SetMember(SetMember(tasks[i], "status", status), "updatedAt", now),
                 "subtasks",
                 [k \in 1..Len(tasks[i].subtasks) |->
                     SetMember(tasks[i].subtasks[k], "status", status)])
        ELSE tasks[i]]

\* Mutant: marking a task done puts the tasks not named back to pending.
updateTasks_ResetOthers(tasks, ids, status, now) ==
    [i \in 1..Len(tasks) |->
        IF includes(ids, tasks[i].id)
        THEN SetMember(SetMember(tasks[i], "status", status), "updatedAt", now)
        ELSE IF status = "done" THEN SetMember(tasks[i], "status", "pending")
        ELSE tasks[i]]

\* Mutant: a task is only marked done when its dependencies are satisfied.
updateTasks_DependenciesDone(tasks, ids, status, now) ==
    [i \in 1..Len(tasks) |->
        IF /\ includes(ids, tasks[i].id)
           /\ (status = "done" => areDependenciesSatisfied(tasks[i], tasks))
        THEN SetMember(SetMember(tasks[i], "status", status), "updatedAt", now)
        ELSE tasks[i]]

\* tasks.forEach(...): every task whose id is among ids gets the status and
\* a fresh updatedAt; the others are left alone.
updateTasks(tasks, ids, status, now) ==
    [i \in 1..Len(tasks) |->
        IF includes(ids, tasks[i].id)
        THEN SetMember(SetMember(tasks[i], "status", status), "updatedAt", now)
        ELSE tasks[i]]

\* Mutant: one count for every id of the list that names a task.
countUpdated_PerId(tasks, ids) ==
    Cardinality({k \in 1..Len(ids) :
                    \E i \in 1..Len(tasks) : ~ids[k].nan /\ ids[k].n = tasks[i].id})

\* updated++ once for every task the loop changes.
countUpdated(tasks, ids) ==
    Cardinality({i \in 1..Len(tasks) : includes(ids, tasks[i].id)})

\* setTaskStatus(taskIds, status) run at time now on the file: the file it
\* leaves and what the caller and the console get.
setTaskStatus(file, taskIds, status, now) ==
    IF ~file.exists
    THEN [file |-> file, out |-> Returned("stderr", "tasks-file-not-found", 0, FALSE)]
    ELSE IF ~file.parses
    THEN [file |-> file, out |-> Threw("error-setting-task-status")]
    ELSE IF \A k \in 1..Len(validStatuses) : validStatuses[k] # status
    THEN [file |-> file, out |-> Returned("stderr", "invalid-status", 0, FALSE)]
    ELSE
      LET ids == [k \in 1..Len(taskIds) |-> parseInt10(taskIds[k])]
          tasks == updateTasks(file.tasks, ids, status, now)
          updated == countUpdated(file.tasks, ids)
      IN  IF updated = 0
          THEN [file |-> file, out |-> Returned("stderr", "no-tasks-found", 0, FALSE)]
          ELSE [file |-> [file EXCEPT !.tasks = tasks, !.metadata.lastUpdated = now],
                out |-> Returned("stdout", "updated", updated, TRUE)]

\* bin/cursor-task.js: a command's action exits 1 when the call threw.
exitCode(out) == IF out.completion = "threw" THEN 1 ELSE 0

----------------------------------------------------------------------------
(* The commands on the store *)

StoreBodies ==
    {[status |-> st, priority |-> "medium", dependencies |-> <<>>,
      subtasks |-> subs, updatedAt |-> 0] : st \in Statuses, subs \in SubtaskSeqs}

StatusArgs == Statuses \cup {"cancelled"}

Init ==
    /\ \/ tasksFile \in {NoFile, CorruptFile}
       \/ \E n \in 0..MaxTasks :
            \E ids \in InjectiveSeqs(Ids, n) :
              \E body \in [1..n -> StoreBodies] :
                tasksFile = Document([i \in 1..n |-> body[i] @@ ("id" :> ids[i])], 0, 0)
    /\ mem = <<>>
    /\ clock = 0
    /\ call = NoCall
    /\ outcome = Returned("stdout", "", 0, FALSE) @@ [exitCode |-> 0]

\* cursor-task init [--prd file], as one of at most `steps` commands.
InitWithin(steps) ==
    \E n \in 0..MaxTasks : \E ensureTasksDirectory \in MissingHelperOutcomes :
        LET r == IF ensureTasksDirectory = "returned"
                 THEN initializeTaskSystem(n, clock + 1)
                 ELSE [file |-> tasksFile, out |-> Threw("error-initializing-task-system")]
        IN  /\ clock < steps
            /\ tasksFile' = r.file
            /\ clock' = clock + 1
            /\ call' = [op |-> "init", requirements |-> n]
            /\ outcome' = r.out @@ [exitCode |-> exitCode(r.out)]
            /\ UNCHANGED mem

\* cursor-task set-status --id=<ids> --status=<status>, as one of at most
\* `steps` commands.
SetStatusWithin(steps, idLists, statuses) ==
    \E ids \in idLists : \E status \in statuses :
        LET r == setTaskStatus(tasksFile, ids, status, clock + 1)
        IN  /\ clock < steps
            /\ tasksFile' = r.file
            /\ clock' = clock + 1
            /\ call' = [op |-> "set-status", ids |-> ids, status |-> status]
            /\ outcome' = r.out @@ [exitCode |-> exitCode(r.out)]
            /\ UNCHANGED mem

InitCommand == InitWithin(MaxClock)

SetStatusCommand ==
    SetStatusWithin(MaxClock, SeqsUpTo(Tokens, MaxTokens) \ {<<>>}, StatusArgs)

Next == InitCommand \/ SetStatusCommand

Spec == Init /\ [][Next]_vars

----------------------------------------------------------------------------
(* lib/utils.js: getTaskById *)

SubtaskSeqsUpTo(maxLen) ==
    UNION {{[i \in 1..k |-> Subtask(i, sts[i])] : sts \in [1..k -> Statuses]} :
           k \in 0..maxLen}

\* String.prototype.split('.'): the pieces between the dots.
RECURSIVE splitAtDots(_)
splitAtDots(chars) ==
    LET dots == {k \in 1..Len(chars) : chars[k] = "."}
    IN  IF dots = {} THEN <<chars>>
        ELSE LET first == CHOOSE k \in dots : \A j \in dots : k <= j
             IN  <<SubSeq(chars, 1, first - 1)>> \o
                 splitAtDots(SubSeq(chars, first + 1, Len(chars)))

\* Number(string): 0 for the empty string, the value of a string of digits,
\* NaN for anything else.
toNumber(chars) ==
    IF chars = <<>> THEN Number(0)
    ELSE IF \A k \in 1..Len(chars) : chars[k] \in DOMAIN DigitValue
    THEN Number(DigitsValue(chars))
    ELSE NaN

\* tasks.find(t => t.id === number): NaN equals no id.
FindByNumber(tasks, number) ==
    IF number.nan THEN Undefined ELSE FindById(tasks, number.n)

NotFound(message) == [completion |-> "threw", message |-> message]

Found(value) == [completion |-> "returned", value |-> value]

\* Mutant: the subtask position is taken as a 0-based index.
getSubtaskById_ZeroBased(tasks, id) ==
    LET parts == splitAtDots(id)
        parentId == toNumber(parts[1])
        subtaskId == toNumber(parts[2])
        parentTask == FindByNumber(tasks, parentId)
    IN  IF parentTask = Undefined THEN NotFound("task-not-found")
        ELSE IF \/ ~Has(parentTask, "subtasks")
                \/ subtaskId.nan
                \/ subtaskId.n + 1 \notin 1..Len(parentTask.subtasks)
        THEN NotFound("subtask-not-found")
        ELSE Found([task |-> parentTask.subtasks[subtaskId.n + 1],
                    parentTask |-> parentTask,
                    isSubtask |-> TRUE,
                    subtaskIndex |-> subtaskId.n])

\* The branch for an id with a dot in it: [parentId, subtaskId] are the first
\* two pieces as numbers, the subtask is parentTask.subtasks[subtaskId - 1]
\* (undefined, hence not found, for an index outside the array or NaN).
getSubtaskById(tasks, id) ==
    LET parts == splitAtDots(id)
        parentId == toNumber(parts[1])
        subtaskId == toNumber(parts[2])
        parentTask == FindByNumber(tasks, parentId)
    IN  IF parentTask = Undefined THEN NotFound("task-not-found")
        ELSE IF \/ ~Has(parentTask, "subtasks")
                \/ subtaskId.nan
                \/ subtaskId.n \notin 1..Len(parentTask.subtasks)
        THEN NotFound("subtask-not-found")
        ELSE Found([task |-> parentTask.subtasks[subtaskId.n],
                    parentTask |-> parentTask,
                    isSubtask |-> TRUE,
                    subtaskIndex |-> subtaskId.n - 1])

\* Mutant: the first task of the collection is returned whatever the id.
getTopLevelById_FirstMatch(tasks, id) ==
    IF tasks = <<>> THEN NotFound("task-not-found")
    ELSE Found([task |-> tasks[1], isSubtask |-> FALSE])

\* The branch for an id without a dot.
getTopLevelById(tasks, id) ==
    LET numericId == toNumber(id)
        task == FindByNumber(tasks, numericId)
    IN  IF task = Undefined THEN NotFound("task-not-found")
        ELSE Found([task |-> task, isSubtask |-> FALSE])

getTaskById(tasks, id) ==
    IF \E k \in 1..Len(id) : id[k] = "."
    THEN getSubtaskById(tasks, id)
    ELSE getTopLevelById(tasks, id)

----------------------------------------------------------------------------
(* Calls of getTaskById on a collection held in memory *)

LookupBodies ==
    Optional([status : Statuses], "subtasks", SubtaskSeqsUpTo(MaxSubtasks + 1))

LookupDottedTokens ==
    {DottedToken(p, sub) : p \in Ids, sub \in 0..(MaxSubtasks + 2)}

LookupTokens == BareTokens \cup LookupDottedTokens \cup {MalformedToken}

InitLookup ==
    /\ tasksFile = NoFile
    /\ IsCollection(mem, LookupBodies, MaxTasks)
    /\ clock = 0
    /\ call = NoCall
    /\ outcome = Found(Null)

GetTaskById ==
    \E id \in LookupTokens :
        /\ call' = [op |-> "getTaskById", id |-> id]
        /\ outcome' = getTaskById(mem, id)
        /\ UNCHANGED <<tasksFile, mem, clock>>

SpecLookup == InitLookup /\ [][GetTaskById]_vars

----------------------------------------------------------------------------
(* set-status commands one after another on a store whose tasks depend on  *)
(* one another                                                             *)

FlowBodies ==
    {[status |-> st, priority |-> pr, dependencies |-> deps, subtasks |-> <<>>,
      updatedAt |-> 0] :
        st \in Statuses, pr \in {"high", "medium"}, deps \in SeqsUpTo(Ids, MaxFlowDeps)}

\* --id=<one id>: the id of a task or of none.
FlowIdLists == {<<token>> : token \in BareTokens}

InitFlow ==
    /\ \E n \in 1..MaxId :
          \E body \in [1..n -> FlowBodies] :
              tasksFile = Document([i \in 1..n |-> body[i] @@ ("id" :> i)], 0, 0)
    /\ mem = <<>>
    /\ clock = 0
    /\ call = NoCall
    /\ outcome = Returned("stdout", "", 0, FALSE) @@ [exitCode |-> 0]

FlowSetStatus == SetStatusWithin(MaxSteps, FlowIdLists, Statuses)

SpecFlow == InitFlow /\ [][FlowSetStatus]_vars

----------------------------------------------------------------------------
(* init and set-status commands one after another, from no tasks.json on *)

InitStore ==
    /\ tasksFile = NoFile
    /\ mem = <<>>
    /\ clock = 0
    /\ call = NoCall
    /\ outcome = Returned("stdout", "", 0, FALSE) @@ [exitCode |-> 0]

StoreInit == InitWithin(MaxStoreSteps)

StoreSetStatus ==
    SetStatusWithin(MaxStoreSteps, SeqsUpTo(Tokens, MaxTokens) \ {<<>>}, StatusArgs)

NextStore == StoreInit \/ StoreSetStatus

SpecStore == InitStore /\ [][NextStore]_vars

----------------------------------------------------------------------------
(* lib/utils.js: loadTasks, saveTasks; JSON as fs-extra writes and reads it *)

JNumber(n) == [json |-> "number", n |-> n]

JString(chars) == [json |-> "string", chars |-> chars]

JArray(items) == [json |-> "array", items |-> items]

JObject(members) == [json |-> "object", members |-> members]

\* One "key": value pair of an object, written only when the member exists
\* (a member that is absent or undefined leaves no text).
Member(r, key, value) == IF Has(r, key) THEN <<[key |-> key, value |-> value]>> ELSE <<>>

stringifySubtask(sub) ==
    JObject(Member(sub, "id", JNumber(sub.id)) \o
            Member(sub, "status", JString(sub.status)))

stringifyTask(t) ==
    JObject(Member(t, "id", JNumber(t.id)) \o
            Member(t, "status", JString(t.status)) \o
            Member(t, "priority", JString(t.priority)) \o
            Member(t, "dependencies",
                   JArray([k \in 1..Len(t.dependencies) |-> JNumber(t.dependencies[k])])) \o
            Member(t, "subtasks",
                   JArray([k \in 1..Len(t.subtasks) |-> stringifySubtask(t.subtasks[k])])) \o
            Member(t, "updatedAt", JNumber(t.updatedAt)))

stringifyMetadata(m) ==
    JObject(Member(m, "created", JNumber(m.created)) \o
            Member(m, "lastUpdated", JNumber(m.lastUpdated)) \o
            Member(m, "version", JString(m.version)))

\* JSON.stringify of a tasks object.
stringify(data) ==
    JObject(Member(data, "tasks",
                   JArray([i \in 1..Len(data.tasks) |-> stringifyTask(data.tasks[i])])) \o
            Member(data, "metadata", stringifyMetadata(data.metadata)))

\* JSON.parse: an object has the members its text names, the last pair of a
\* key giving the value; an array keeps the order of its items.
RECURSIVE parse(_)
parse(text) ==
    IF text.json = "number" THEN text.n
    ELSE IF text.json = "string" THEN text.chars
    ELSE IF text.json = "array"
    THEN [i \in 1..Len(text.items) |-> parse(text.items[i])]
    ELSE LET members == text.members
             keys == {members[i].key : i \in 1..Len(members)}
             last(key) == CHOOSE i \in 1..Len(members) :
                              /\ members[i].key = key
                              /\ \A j \in 1..Len(members) : members[j].key = key => j <= i
         IN  [key \in keys |-> parse(members[last(key)].value)]

\* tasks.json holding the text of a JSON object, seen as the object read.
FileOf(data) == data @@ [exists |-> TRUE, parses |-> TRUE]

\* What fs.readJSON gives for a file that parses.
ObjectOf(file) == [key \in DOMAIN file \ {"exists", "parses"} |-> file[key]]

loadTasks(file) ==
    IF ~file.exists THEN Found([tasks |-> <<>>])
    ELSE IF ~file.parses THEN NotFound("failed-to-load-tasks")
    ELSE Found(ObjectOf(file))

\* Mutant: only the tasks array is written.
saveTasks_TasksOnly(tasks) ==
    FileOf(parse(stringify([tasks |-> tasks.tasks])))

\* fs.writeJSON(tasksPath, tasks, { spaces: 2 }): the file holds the text of
\* the object, whatever it held.
saveTasks(tasks) ==
    FileOf(parse(stringify(tasks)))

----------------------------------------------------------------------------
(* loadTasks and saveTasks called by a collaborator (MCP integration) *)

RoundTripBodies ==
    Optional(
        Optional(
            Optional([status : Statuses, updatedAt : {0}], "priority", {"high"}),
            "dependencies", SeqsUpTo(Ids, MaxFlowDeps)),
        "subtasks", SubtaskSeqs)

InitRoundTrip ==
    /\ \/ tasksFile \in {NoFile, CorruptFile}
       \/ tasksFile = FileOf([tasks |-> <<>>])
       \/ \E n \in 0..MaxTasks :
            \E ids \in InjectiveSeqs(Ids, n) :
              \E body \in [1..n -> RoundTripBodies] :
                tasksFile = Document([i \in 1..n |-> body[i] @@ ("id" :> ids[i])], 0, 0)
    /\ mem = Undefined
    /\ clock = 0
    /\ call = NoCall
    /\ outcome = Found(Undefined)

\* executeTool('cursor_task_loadTasks', {})
LoadTasks ==
    LET r == loadTasks(tasksFile)
    IN  /\ call' = [op |-> "loadTasks"]
        /\ outcome' = r
        /\ mem' = IF r.completion = "returned" THEN r.value ELSE mem
        /\ UNCHANGED <<tasksFile, clock>>

\* The saveTasks tool, handed the object held in memory.
SaveTasks ==
    /\ mem # Undefined
    /\ call' = [op |-> "saveTasks"]
    /\ tasksFile' = saveTasks(mem)
    /\ outcome' = Found(Undefined)
    /\ UNCHANGED <<mem, clock>>

NextRoundTrip == LoadTasks \/ SaveTasks

SpecRoundTrip == InitRoundTrip /\ [][NextRoundTrip]_vars

----------------------------------------------------------------------------
(* lib/taskManager.js: showNextTask, showTask *)

\* What a command that displays has put on the console, and how it ended.
Displayed(stream, message, shown) ==
    Returned(stream, message, 0, FALSE) @@ [shown |-> shown]

Failed(message) == Threw(message) @@ [shown |-> Null]

TypeError(message) == [completion |-> "threw", message |-> message]

Permuted(seq, p) == [k \in 1..Len(seq) |-> seq[p[k]]]

\* sortTasksByDependencies(pendingTasks, tasks) is imported from ./utils,
\* whose module.exports does not hold it: the call throws "is not a function".
\* A build whose utils.js defines it returns the pending tasks in an order of
\* its choosing.
sortTasksByDependencies(pendingTasks, tasks) ==
    {TypeError("sortTasksByDependencies is not a function")} \cup
    {Found(Permuted(pendingTasks, p)) : p \in Permutations(1..Len(pendingTasks))}

\* dependencies.every(id => the task with that id exists and is done)
allDependenciesMet(task, tasks) ==
    LET dependencies == IF Has(task, "dependencies") THEN task.dependencies ELSE <<>>
    IN  \A k \in 1..Len(dependencies) :
            LET dependency == FindById(tasks, dependencies[k])
            IN  dependency # Undefined /\ dependency.status = "done"

\* The for loop over sortedTasks and the message that follows it.
firstWithDependenciesMet(sorted, tasks) ==
    IF sorted.completion = "threw" THEN Failed("error-showing-next-task")
    ELSE LET sortedTasks == sorted.value
             met == {k \in 1..Len(sortedTasks) : allDependenciesMet(sortedTasks[k], tasks)}
         IN  IF met = {}
             THEN Displayed("stdout", "all-pending-blocked", Null)
             ELSE Displayed("stdout", "next-task",
                            sortedTasks[CHOOSE k \in met : \A j \in met : k <= j])

\* showNextTask() on the file: the ways it can end.
showNextTask(file) ==
    IF ~file.exists THEN {Displayed("stderr", "tasks-file-not-found", Null)}
    ELSE IF ~file.parses THEN {Failed("error-showing-next-task")}
    ELSE
      LET tasks == IF Has(file, "tasks") THEN file.tasks ELSE <<>>
          pendingTasks == SelectSeq(tasks, LAMBDA task : task.status = "pending")
      IN  IF Len(pendingTasks) = 0
          THEN {Displayed("stdout", "all-complete-or-in-progress", Null)}
          ELSE {firstWithDependenciesMet(sorted, tasks) :
                    sorted \in sortTasksByDependencies(pendingTasks, tasks)}

\* getTaskById(id, tasks) as showTask calls it: the number stands where
\* utils.js expects the array and the array where it expects the id.  The
\* array's toString() ("[object Object],...") holds no dot, so the bare branch
\* runs and calls .find on the number: TypeError.
getTaskByIdOfNumber(id, tasks) == TypeError("tasks.find is not a function")

\* showTask(taskId) on the file.
showTask(file, taskId) ==
    IF ~file.exists THEN Displayed("stderr", "tasks-file-not-found", Null)
    ELSE IF ~file.parses THEN Failed("error-showing-task")
    ELSE
      LET tasks == IF Has(file, "tasks") THEN file.tasks ELSE <<>>
          id == parseInt10(taskId)
          task == getTaskByIdOfNumber(id, tasks)
      IN  IF task.completion = "threw" THEN Failed("error-showing-task")
          ELSE IF task.value = Undefined
          THEN Displayed("stderr", "task-not-found", Null)
          ELSE Displayed("stdout", "task", task.value)

----------------------------------------------------------------------------
(* The commands that display: cursor-task next, cursor-task show <id> *)

ShowBodies ==
    {[status |-> st, priority |-> pr, dependencies |-> deps, subtasks |-> subs,
      updatedAt |-> 0] :
        st \in Statuses, pr \in {"high", "medium"},
        deps \in SeqsUpTo(Ids, MaxFlowDeps),
        subs \in {<<>>, <<Subtask(1, "pending")>>}}

InitShow ==
    /\ \/ tasksFile \in {NoFile, CorruptFile}
       \/ \E n \in 0..MaxTasks :
            \E ids \in InjectiveSeqs(Ids, n) :
              \E body \in [1..n -> ShowBodies] :
                tasksFile = Document([i \in 1..n |-> body[i] @@ ("id" :> ids[i])], 0, 0)
    /\ mem = <<>>
    /\ clock = 0
    /\ call = NoCall
    /\ outcome = Displayed("stdout", "", Null) @@ [exitCode |-> 0]

\* cursor-task next
NextCommand ==
    \E r \in showNextTask(tasksFile) :
        /\ call' = [op |-> "next"]
        /\ outcome' = r @@ [exitCode |-> exitCode(r)]
        /\ UNCHANGED <<tasksFile, mem, clock>>

\* cursor-task show <id>
ShowCommand ==
    \E id \in Tokens :
        LET r == showTask(tasksFile, id)
        IN  /\ call' = [op |-> "show", id |-> id]
            /\ outcome' = r @@ [exitCode |-> exitCode(r)]
            /\ UNCHANGED <<tasksFile, mem, clock>>

NextShow == NextCommand \/ ShowCommand

SpecShow == InitShow /\ [][NextShow]_vars

----------------------------------------------------------------------------
(* Two cursor-task set-status processes on the same tasks.json *)

Invocations == {"first", "second"}

RaceBodies ==
    {[status |-> st, priority |-> "medium", dependencies |-> <<>>,
      subtasks |-> <<>>, updatedAt |-> 0] : st \in Statuses}

\* Mutant: a task of the file is kept when it is newer than the one written.
writeJson_KeepNewer(file, data) ==
    [data EXCEPT !.tasks =
        [i \in 1..Len(data.tasks) |->
            IF /\ file.exists /\ file.parses
               /\ i <= Len(file.tasks)
               /\ file.tasks[i].updatedAt > data.tasks[i].updatedAt
            THEN file.tasks[i]
            ELSE data.tasks[i]]]

\* fs.writeJson(tasksPath, tasksData, { spaces: 2 }): the file is replaced by
\* the object the process holds, whatever the file holds by then.
writeJson(file, data) == data

\* A process that has not read yet: its arguments and nothing else.
Started(ids, status) ==
    [pc |-> "start", ids |-> ids, status |-> status, tasksData |-> Undefined,
     loadedAt |-> 0, savedAt |-> 0, out |-> Returned("stdout", "", 0, FALSE)]

InitRace ==
    /\ \E n \in 1..MaxId :
          \E body \in [1..n -> RaceBodies] :
              tasksFile = Document([i \in 1..n |-> body[i] @@ ("id" :> i)], 0, 0)
    /\ \E ids \in [Invocations -> FlowIdLists] :
          \E status \in [Invocations -> Statuses] :
              mem = [p \in Invocations |-> Started(ids[p], status[p])]
    /\ clock = 0
    /\ call = NoCall
    /\ outcome = Returned("stdout", "", 0, FALSE) @@ [exitCode |-> 0]

\* const tasksData = await fs.readJson(tasksPath)
ReadStore(p) ==
    /\ mem[p].pc = "start"
    /\ clock' = clock + 1
    /\ mem' = [mem EXCEPT ![p] = [@ EXCEPT !.pc = "loaded",
                                           !.tasksData = tasksFile,
                                           !.loadedAt = clock + 1]]
    /\ call' = [op |-> "set-status", ids |-> mem[p].ids, status |-> mem[p].status,
                by |-> p, step |-> "readJson"]
    /\ UNCHANGED <<tasksFile, outcome>>

\* The rest of setTaskStatus: the update of the object read and
\* await fs.writeJson(tasksPath, tasksData, { spaces: 2 }).
UpdateAndWrite(p) ==
    LET r == setTaskStatus(mem[p].tasksData, mem[p].ids, mem[p].status, clock + 1)
    IN  /\ mem[p].pc = "loaded"
        /\ clock' = clock + 1
        /\ tasksFile' = IF r.out.wrote THEN writeJson(tasksFile, r.file) ELSE tasksFile
        /\ mem' = [mem EXCEPT ![p] = [@ EXCEPT !.pc = "done",
                                               !.savedAt = clock + 1,
                                               !.out = r.out]]
        /\ call' = [op |-> "set-status", ids |-> mem[p].ids, status |-> mem[p].status,
                    by |-> p, step |-> "writeJson"]
        /\ outcome' = r.out @@ [exitCode |-> exitCode(r.out)]

NextRace == \E p \in Invocations : ReadStore(p) \/ UpdateAndWrite(p)

SpecRace == InitRace /\ [][NextRace]_vars

----------------------------------------------------------------------------
(* The work loop of a collaborator: take what getNextTask returns, set it *)
(* to done, again                                                         *)

LoopBodies ==
    {[status |-> st, priority |-> "medium", dependencies |-> deps,
      subtasks |-> <<>>, updatedAt |-> 0] :
        st \in Statuses, deps \in SeqsUpTo(Ids, MaxDeps)}

\* The store the loop starts on; mem keeps the tasks it found there.
InitLoop ==
    /\ \E n \in 1..MaxId :
          \E body \in [1..n -> LoopBodies] :
              tasksFile = Document([i \in 1..n |-> body[i] @@ ("id" :> i)], 0, 0)
    /\ mem = tasksFile.tasks
    /\ clock = 0
    /\ call = NoCall
    /\ outcome = Returned("stdout", "", 0, FALSE) @@ [exitCode |-> 0]

\* nextTask = getNextTask(tasks.tasks); setTaskStatus([nextTask.id], 'done')
WorkOnNext ==
    LET nextTask == getNextTask(tasksFile.tasks).value
    IN  /\ nextTask # Null
        /\ LET ids == <<BareToken(nextTask.id)>>
               r == setTaskStatus(tasksFile, ids, "done", clock + 1)
           IN  /\ tasksFile' = r.file
               /\ clock' = clock + 1
               /\ call' = [op |-> "set-status", ids |-> ids, status |-> "done"]
               /\ outcome' = r.out @@ [exitCode |-> exitCode(r.out)]
               /\ UNCHANGED mem

SpecLoop == InitLoop /\ [][WorkOnNext]_vars

----------------------------------------------------------------------------
(* What the claims speak of, stated apart from the operators above *)

TaskIds(tasks) == {tasks[i].id : i \in 1..Len(tasks)}

DoneIds(tasks) == {tasks[i].id : i \in {j \in 1..Len(tasks) : tasks[j].status = "done"}}

DependencyIds(t) ==
    IF Has(t, "dependencies") THEN {t.dependencies[k] : k \in 1..Len(t.dependencies)}
    ELSE {}

AllDependenciesDone(t, tasks) == DependencyIds(t) \subseteq DoneIds(tasks)

HasDangling(t, tasks) == DependencyIds(t) \ TaskIds(tasks) # {}

\* The positions of the tasks that are pending or in-progress with every
\* dependency an existing done task.
Eligible(tasks) ==
    {i \in 1..Len(tasks) : /\ tasks[i].status \in {"pending", "in-progress"}
                           /\ AllDependenciesDone(tasks[i], tasks)}

Weight(t) ==
    IF ~Has(t, "priority") THEN 2
    ELSE IF t.priority = "high" THEN 3
    ELSE IF t.priority = "low" THEN 1
    ELSE 2

RawDeps(t) == IF Has(t, "dependencies") THEN Len(t.dependencies) ELSE 0

\* a comes strictly before b: priority weight, then raw dependency count,
\* then id.
Precedes(a, b) ==
    \/ Weight(a) > Weight(b)
    \/ Weight(a) = Weight(b) /\ RawDeps(a) < RawDeps(b)
    \/ Weight(a) = Weight(b) /\ RawDeps(a) = RawDeps(b) /\ a.id < b.id

Reordered(tasks, p) == [i \in 1..Len(tasks) |-> tasks[p[i]]]

CalledDeps == call.op = "areDependenciesSatisfied"
CalledNext == call.op = "getNextTask"

----------------------------------------------------------------------------
(* Claims on the dependency predicate and the selector (SpecSelect, and    *)
(* SpecRank for the order of the candidates)                               *)

\* C1: areDependenciesSatisfied(t, allTasks) is true when t.dependencies is
\* empty or absent, and otherwise true exactly when every listed id is the id
\* of a task of allTasks whose status is done.
C1_SatisfiedIffAllDone ==
    CalledDeps =>
        LET t == mem[call.index]
        IN  /\ (~Has(t, "dependencies") => outcome.value = TRUE)
            /\ (Has(t, "dependencies") /\ t.dependencies = <<>> => outcome.value = TRUE)
            /\ outcome.value = AllDependenciesDone(t, mem)

\* Two different dependencies, one done and one existing but not done: false.
C1_Witness ==
    /\ CalledDeps
    /\ LET t == mem[call.index]
       IN  /\ Cardinality(DependencyIds(t)) = 2
           /\ DependencyIds(t) \subseteq TaskIds(mem)
           /\ DependencyIds(t) \cap DoneIds(mem) # {}
           /\ outcome.value = FALSE

\* C2: a task with a dependency id that is the id of no task is never
\* satisfied, whatever its other dependencies, and getNextTask never returns
\* such a task.
C2_DanglingFailsClosed ==
    /\ CalledDeps /\ HasDangling(mem[call.index], mem) => outcome.value = FALSE
    /\ CalledNext /\ outcome.value # Null => ~HasDangling(outcome.value, mem)

\* A dangling dependency next to a done one, and the answer is false.
C2_Witness ==
    /\ CalledDeps
    /\ LET t == mem[call.index]
       IN  /\ HasDangling(t, mem)
           /\ DependencyIds(t) \cap DoneIds(mem) # {}
           /\ outcome.value = FALSE

\* C3: getNextTask returns null exactly when no task is pending or
\* in-progress with satisfied dependencies; a task it returns is a member of
\* the collection, pending or in-progress, with satisfied dependencies.
C3_NextIsEligible ==
    CalledNext =>
        /\ outcome.value = Null <=> Eligible(mem) = {}
        /\ outcome.value # Null => \E i \in Eligible(mem) : mem[i] = outcome.value

\* An in-progress task with a done dependency is returned.
C3_Witness ==
    /\ CalledNext
    /\ outcome.value # Null
    /\ outcome.value.status = "in-progress"
    /\ DependencyIds(outcome.value) # {}

\* C4: the task returned is the candidate first by priority weight (high 3,
\* medium 2, low 1, absent as medium), then fewer raw dependencies, then
\* smaller id; no candidate precedes it, and the order of the collection does
\* not matter.
C4_NextIsFirstInOrder ==
    CalledNext /\ outcome.value # Null =>
        /\ \A i \in Eligible(mem) :
              mem[i] # outcome.value => Precedes(outcome.value, mem[i])
        /\ \A p \in Permutations(1..Len(mem)) :
              getNextTask(Reordered(mem, p)).value = outcome.value

\* Two candidates of equal weight: the one returned lists one dependency,
\* the other lists two and stands before it in the collection.
C4_Witness ==
    /\ CalledNext
    /\ Cardinality(Eligible(mem)) = 2
    /\ \E i, j \in Eligible(mem) :
          /\ i < j
          /\ outcome.value = mem[j]
          /\ Weight(mem[i]) = Weight(mem[j])
          /\ RawDeps(mem[i]) = 2
          /\ RawDeps(mem[j]) = 1

\* The pairs (c, d) of positions where task c is pending and its dependencies
\* are exactly the one id of task d.
DependsOnOnly(tasks) ==
    {cd \in (1..Len(tasks)) \X (1..Len(tasks)) :
        /\ cd[1] # cd[2]
        /\ tasks[cd[1]].status = "pending"
        /\ Has(tasks[cd[1]], "dependencies")
        /\ tasks[cd[1]].dependencies = <<tasks[cd[2]].id>>}

\* C5 as stated: C pending with the single dependency D; D done: C is
\* returned; D pending: null is returned.
C5_AsStated ==
    CalledNext =>
        \A cd \in DependsOnOnly(mem) :
            /\ mem[cd[2]].status = "done" => outcome.value = mem[cd[1]]
            /\ mem[cd[2]].status = "pending" => outcome.value = Null

\* C5 amended: C pending with the single dependency D, every other task
\* done.  D done: C is returned.  D pending: C is not returned; D is returned
\* when D's own dependencies are satisfied, and null otherwise.
C5_BlockedByPendingDependency ==
    CalledNext =>
        \A cd \in DependsOnOnly(mem) :
            (\A i \in 1..Len(mem) : i \notin {cd[1], cd[2]} => mem[i].status = "done") =>
                /\ mem[cd[2]].status = "done" => outcome.value = mem[cd[1]]
                /\ mem[cd[2]].status = "pending" =>
                      outcome.value = IF AllDependenciesDone(mem[cd[2]], mem)
                                      THEN mem[cd[2]] ELSE Null

\* D is pending and free of dependencies, C has the higher priority, and D
\* is what getNextTask returns.
C5_Witness ==
    /\ CalledNext
    /\ \E cd \in DependsOnOnly(mem) :
          /\ mem[cd[2]].status = "pending"
          /\ Weight(mem[cd[1]]) > Weight(mem[cd[2]])
          /\ outcome.value = mem[cd[2]]

\* C6: areDependenciesSatisfied and getNextTask leave the collection as it
\* was (same tasks, same order, same members), and a getNextTask call that
\* follows a getNextTask call returns the same task.
C6_SelectorsReadOnly ==
    [][ (call'.op \in {"getNextTask", "areDependenciesSatisfied"}) =>
            /\ mem' = mem
            /\ (CalledNext /\ call'.op = "getNextTask" => outcome'.value = outcome.value)
      ]_vars

\* getNextTask has returned a task that does not stand first in the
\* collection, which is left in its order.
C6_Witness ==
    /\ CalledNext
    /\ Len(mem) = 2
    /\ outcome.value = mem[2]
    /\ Cardinality(Eligible(mem)) = 2
    /\ Weight(mem[2]) > Weight(mem[1])

----------------------------------------------------------------------------
(* Claims on set-status (Spec) *)

Readable(file) == file.exists /\ file.parses

\* The step is a set-status invocation on a readable store.
SetStatusStep == call'.op = "set-status" /\ Readable(tasksFile)

RangeOf(seq) == {seq[k] : k \in 1..Len(seq)}

\* The positions of the tasks whose id a bare token of the list writes.
NamedBare(tasks, tokens) ==
    {i \in 1..Len(tasks) : BareToken(tasks[i].id) \in RangeOf(tokens)}

\* The token addresses an existing record: a bare id of a task, or P.S with
\* task P existing and S within 1..len(subtasks of P).
Resolves(tasks, token) ==
    \/ \E i \in 1..Len(tasks) : token = BareToken(tasks[i].id)
    \/ \E i \in 1..Len(tasks) :
          /\ Has(tasks[i], "subtasks")
          /\ \E sub \in 1..Len(tasks[i].subtasks) :
                token = DottedToken(tasks[i].id, sub)

\* The caller gets an error: the call throws, or the process exits non-zero.
CallerGetsError(out) == out.completion = "threw" \/ out.exitCode # 0

\* C7 as stated: setTaskStatus with a status outside pending, in-progress,
\* done changes no task, does not write the store, and ends in an error for
\* its caller instead of completing normally.
C7_InvalidStatusIsAnError ==
    [][ SetStatusStep /\ call'.status \notin Statuses =>
            /\ tasksFile' = tasksFile
            /\ ~outcome'.wrote
            /\ CallerGetsError(outcome')
      ]_vars

C9_NothingResolvedIsAnError ==
    [][ /\ SetStatusStep
        /\ call'.status \in Statuses
        /\ \A k \in 1..Len(call'.ids) : ~Resolves(tasksFile.tasks, call'.ids[k])
        =>
        /\ tasksFile' = tasksFile
        /\ ~outcome'.wrote
        /\ CallerGetsError(outcome')
      ]_vars

\* C10 as stated: for a token P.S with task P existing and holding at least S
\* subtasks, the subtask at position S gets the status, and P keeps its own
\* status (unless the list names P itself).
C10_DottedTokenSetsSubtask ==
    [][ SetStatusStep /\ call'.status \in Statuses =>
            \A i \in 1..Len(tasksFile.tasks) :
                LET task == tasksFile.tasks[i]
                IN  \A sub \in 1..Len(task.subtasks) :
                        DottedToken(task.id, sub) \in RangeOf(call'.ids) =>
                            /\ Readable(tasksFile')
                            /\ tasksFile'.tasks[i].subtasks[sub].status = call'.status
                            /\ (BareToken(task.id) \notin RangeOf(call'.ids) =>
                                    tasksFile'.tasks[i].status = task.status)
      ]_vars

----------------------------------------------------------------------------
(* Claims on getTaskById (SpecLookup) *)

CalledLookup == call.op = "getTaskById"

\* The number of subtasks of a task (none when the member is absent).
SubtaskCount(t) == IF Has(t, "subtasks") THEN Len(t.subtasks) ELSE 0

\* The positions of the tasks with the id n (at most one).
WithId(tasks, n) == {i \in 1..Len(tasks) : tasks[i].id = n}

\* C11: for a token P.S getTaskById throws not-found exactly when no task has
\* id P or S is outside 1..len(subtasks of P); otherwise it returns the
\* subtask at position S, the parent P, isSubtask = true and index S - 1, so
\* that parent.subtasks[index] (0-based) is the subtask returned.
C11_DottedLookup ==
    CalledLookup =>
        \A p \in Ids, sub \in 0..(MaxSubtasks + 2) :
            call.id = DottedToken(p, sub) =>
                LET missing == \/ WithId(mem, p) = {}
                               \/ \E i \in WithId(mem, p) :
                                     sub \notin 1..SubtaskCount(mem[i])
                IN  /\ outcome.completion = "threw" <=> missing
                    /\ ~missing =>
                          \E i \in WithId(mem, p) :
                              /\ outcome.completion = "returned"
                              /\ outcome.value.task = mem[i].subtasks[sub]
                              /\ outcome.value.parentTask = mem[i]
                              /\ outcome.value.isSubtask = TRUE
                              /\ outcome.value.subtaskIndex = sub - 1
                              /\ outcome.value.parentTask.subtasks[
                                     outcome.value.subtaskIndex + 1] = outcome.value.task

\* The second of two subtasks with different statuses is returned.
C11_Witness ==
    /\ CalledLookup
    /\ outcome.completion = "returned"
    /\ outcome.value.isSubtask
    /\ outcome.value.subtaskIndex = 1
    /\ Len(outcome.value.parentTask.subtasks) = 2
    /\ outcome.value.parentTask.subtasks[1].status # outcome.value.task.status

\* C12: for a bare integer token getTaskById returns the top-level task with
\* that id and isSubtask = false when there is one, throws not-found exactly
\* when there is none, never returns a subtask, and leaves the collection as
\* it was.
C12_BareLookup ==
    [][ call'.op = "getTaskById" =>
            /\ mem' = mem
            /\ \A n \in Ids :
                  call'.id = BareToken(n) =>
                      /\ outcome'.completion = "threw" <=> WithId(mem, n) = {}
                      /\ \A i \in WithId(mem, n) :
                            /\ outcome'.completion = "returned"
                            /\ outcome'.value.task = mem[i]
                            /\ outcome'.value.isSubtask = FALSE
                            /\ ~Has(outcome'.value, "parentTask")
      ]_vars

\* The task returned for a bare token stands second in the collection and
\* holds a subtask with the same id.
C12_Witness ==
    /\ CalledLookup
    /\ call.id \in BareTokens
    /\ outcome.completion = "returned"
    /\ Len(mem) = 2
    /\ outcome.value.task = mem[2]
    /\ SubtaskCount(mem[2]) > 0
    /\ mem[2].subtasks[1].id = mem[2].id

----------------------------------------------------------------------------
(* Claims on set-status and the selector on stores with dependencies       *)
(* (SpecFlow)                                                              *)

\* The positions of the tasks that list the id of a task that is not done.
WaitsOnUndone(tasks) ==
    {i \in 1..Len(tasks) :
        \E j \in 1..Len(tasks) :
            tasks[j].id \in DependencyIds(tasks[i]) /\ tasks[j].status # "done"}

\* C13: set-status of an existing task to any of the three statuses succeeds
\* whatever the task's status, whether or not its dependencies are done and
\* whether or not other tasks depend on it: the task has the status
\* afterwards; tasks depending on a task that is not done stay ineligible.
C13_NoDependencyCheck ==
    [][ /\ SetStatusStep
        /\ call'.status \in Statuses
        /\ Len(call'.ids) = 1
        /\ NamedBare(tasksFile.tasks, call'.ids) # {}
        =>
        /\ outcome'.completion = "returned"
        /\ outcome'.message = "updated"
        /\ outcome'.exitCode = 0
        /\ outcome'.wrote
        /\ \A i \in NamedBare(tasksFile.tasks, call'.ids) :
              tasksFile'.tasks[i].status = call'.status
        /\ \A i \in WaitsOnUndone(tasksFile'.tasks) :
              /\ ~areDependenciesSatisfied(tasksFile'.tasks[i], tasksFile'.tasks)
              /\ getNextTask(tasksFile'.tasks).value # tasksFile'.tasks[i]
      ]_vars

\* A task is marked done while its own dependency is pending, and another
\* task is marked pending again while a done task depends on it.
C13_Witness ==
    /\ call.op = "set-status"
    /\ clock = 2
    /\ outcome.message = "updated"
    /\ LET tasks == tasksFile.tasks
       IN  /\ Len(tasks) = 3
           /\ tasks[2].dependencies = <<1>>
           /\ tasks[2].status = "done"
           /\ tasks[2].updatedAt = 1
           /\ tasks[1].status = "pending"
           /\ tasks[1].updatedAt = 2
           /\ tasks[3].dependencies = <<2>>

\* The pairs (i, j) of positions of tasks that are not done where task i
\* lists the id of task j.
UndoneEdges(tasks) ==
    {e \in (1..Len(tasks)) \X (1..Len(tasks)) :
        /\ tasks[e[1]].status # "done"
        /\ tasks[e[2]].status # "done"
        /\ tasks[e[2]].id \in DependencyIds(tasks[e[1]])}

\* The pairs joined by a chain of at most k + 1 edges.
RECURSIVE Chains(_, _)
Chains(edges, k) ==
    IF k = 0 THEN edges
    ELSE LET shorter == Chains(edges, k - 1)
         IN  shorter \cup
             {<<ab[1][1], ab[2][2]>> :
                 ab \in {x \in shorter \X edges : x[1][2] = x[2][1]}}

\* The positions of the tasks on a dependency cycle none of whose tasks is
\* done (a task listing its own id is a cycle of one).
OnUndoneCycle(tasks) ==
    {i \in 1..Len(tasks) : <<i, i>> \in Chains(UndoneEdges(tasks), Len(tasks))}

\* C16: while the tasks of a dependency cycle are all not done, getNextTask
\* returns null or a task, never a task of the cycle, and returns the first
\* in order of the eligible tasks outside the cycle when there is one; so it
\* is in every store that set-status commands lead to.
C16_CycleNeverSelected ==
    Readable(tasksFile) =>
        LET tasks == tasksFile.tasks
            cycle == OnUndoneCycle(tasks)
            outside == Eligible(tasks) \ cycle
            next == getNextTask(tasks).value
        IN  cycle # {} =>
                /\ \A i \in cycle : next # tasks[i]
                /\ next # Null => \E i \in 1..Len(tasks) : next = tasks[i]
                /\ outside = {} => next = Null
                /\ outside # {} =>
                      \E i \in outside :
                          /\ next = tasks[i]
                          /\ \A j \in outside \ {i} : Precedes(tasks[i], tasks[j])

\* Tasks 1 and 2 depend on each other, set-status has put both in progress,
\* and the task returned is task 3, which stands outside the cycle.
C16_Witness ==
    /\ call.op = "set-status"
    /\ clock = 2
    /\ LET tasks == tasksFile.tasks
       IN  /\ Len(tasks) = 3
           /\ tasks[1].dependencies = <<2>>
           /\ tasks[2].dependencies = <<1>>
           /\ tasks[1].status = "in-progress" /\ tasks[1].updatedAt = 1
           /\ tasks[2].status = "in-progress" /\ tasks[2].updatedAt = 2
           /\ OnUndoneCycle(tasks) = {1, 2}
           /\ getNextTask(tasks).value = tasks[3]

\* The positions of the tasks whose dependencies are satisfied.
Satisfied(tasks) ==
    {i \in 1..Len(tasks) : areDependenciesSatisfied(tasks[i], tasks)}

\* The positions of the tasks that list the id of a task named by the list.
DependOnNamed(tasks, tokens) ==
    {i \in 1..Len(tasks) :
        \E j \in NamedBare(tasks, tokens) : tasks[j].id \in DependencyIds(tasks[i])}

\* C22: a set-status step to done never makes a satisfied task unsatisfied;
\* a step after which a satisfied task is unsatisfied has changed one of its
\* dependencies from done to pending or in-progress; a step to in-progress
\* leaves every unsatisfied task that depends on the task named unsatisfied.
C22_EligibilityMonotone ==
    [][ SetStatusStep /\ Readable(tasksFile') =>
        LET before == tasksFile.tasks
            after == tasksFile'.tasks
        IN  /\ call'.status = "done" => Satisfied(before) \subseteq Satisfied(after)
            /\ \A i \in Satisfied(before) \ Satisfied(after) :
                  \E j \in 1..Len(before) :
                      /\ before[j].id \in DependencyIds(before[i])
                      /\ before[j].status = "done"
                      /\ after[j].status \in {"pending", "in-progress"}
            /\ call'.status = "in-progress" =>
                  \A i \in DependOnNamed(before, call'.ids) :
                      i \notin Satisfied(before) => i \notin Satisfied(after)
      ]_vars

\* The second command has set task 1 done: task 2, which waits on task 1
\* alone, is satisfied, and task 3, which waits on the pending task 2, is not.
C22_Witness ==
    /\ call.op = "set-status"
    /\ call.status = "done"
    /\ call.ids = <<BareToken(1)>>
    /\ clock = 2
    /\ outcome.message = "updated"
    /\ LET tasks == tasksFile.tasks
       IN  /\ Len(tasks) = 3
           /\ tasks[1].status = "done" /\ tasks[1].updatedAt = 2
           /\ tasks[2].dependencies = <<1>> /\ tasks[2].status = "pending"
           /\ tasks[3].dependencies = <<2>>
           /\ Satisfied(tasks) = {1, 2}

----------------------------------------------------------------------------
(* Claims on the stores that init and set-status make (SpecStore) *)

\* C14: in every store reached from init by init and set-status commands no
\* two top-level tasks have the same id.
C14_UniqueIds ==
    Readable(tasksFile) =>
        \A i, j \in 1..Len(tasksFile.tasks) :
            tasksFile.tasks[i].id = tasksFile.tasks[j].id => i = j

\* init, a second init of two tasks, then a set-status that changed one of
\* the two.
C14_Witness ==
    /\ call.op = "set-status"
    /\ clock = 3
    /\ Readable(tasksFile)
    /\ tasksFile.metadata.created = 2
    /\ tasksFile.metadata.lastUpdated = 3
    /\ Len(tasksFile.tasks) = 2
    /\ outcome.count = 1
    /\ tasksFile.tasks[1].status # tasksFile.tasks[2].status

----------------------------------------------------------------------------
(* Claims on loadTasks and saveTasks (SpecRoundTrip) *)

\* C15: for every stored document, loadTasks followed by saveTasks of the
\* value loaded leaves the store with the same tasks in the same order with
\* the same members and values, and the same metadata.
C15_RoundTrip ==
    [][ /\ call.op = "loadTasks"
        /\ call'.op = "saveTasks"
        /\ Readable(tasksFile)
        =>
        /\ Readable(tasksFile')
        /\ DOMAIN tasksFile' = DOMAIN tasksFile
        /\ Len(tasksFile'.tasks) = Len(tasksFile.tasks)
        /\ \A i \in 1..Len(tasksFile.tasks) : tasksFile'.tasks[i] = tasksFile.tasks[i]
        /\ Has(tasksFile, "metadata") => tasksFile'.metadata = tasksFile.metadata
      ]_vars

\* A document of two tasks, the first with the greater id, with and without
\* optional members, has been loaded and saved.
C15_Witness ==
    /\ call.op = "saveTasks"
    /\ Readable(tasksFile)
    /\ Has(tasksFile, "metadata")
    /\ Len(tasksFile.tasks) = 2
    /\ tasksFile.tasks[1].id > tasksFile.tasks[2].id
    /\ Has(tasksFile.tasks[1], "subtasks")
    /\ Len(tasksFile.tasks[1].subtasks) = 1
    /\ Has(tasksFile.tasks[1], "dependencies")
    /\ ~Has(tasksFile.tasks[2], "dependencies")
    /\ ~Has(tasksFile.tasks[2], "priority")
    /\ mem = ObjectOf(tasksFile)

----------------------------------------------------------------------------
(* Claims on the commands that display (SpecShow) *)

PendingPositions(tasks) == {i \in 1..Len(tasks) : tasks[i].status = "pending"}

\* C17: on every stored collection the next command ends without failure,
\* presents a task exactly when getNextTask returns one, and the task it
\* presents is the task getNextTask returns.
C17_NextAgreesWithSelector ==
    call.op = "next" /\ Readable(tasksFile) =>
        /\ outcome.completion = "returned"
        /\ outcome.exitCode = 0
        /\ outcome.shown = getNextTask(tasksFile.tasks).value

\* C18: the show command displays what getTaskById resolves its argument to,
\* the top-level task for a bare id and the subtask at position S of task P
\* for P.S, and reports not-found for a token that does not resolve.
C18_ShowResolvesLikeGetTaskById ==
    call.op = "show" /\ Readable(tasksFile) =>
        LET resolved == getTaskById(tasksFile.tasks, call.id)
        IN  IF resolved.completion = "threw"
            THEN outcome.message = "task-not-found" /\ outcome.shown = Null
            ELSE outcome.message = "task" /\ outcome.shown = resolved.value.task

\* C19: the next command reports "all complete" exactly when no task is
\* pending, and "all pending tasks are blocked" exactly when a pending task
\* exists and no pending task has all its dependencies existing and done.
C19_NextTellsBlockedFromComplete ==
    call.op = "next" /\ Readable(tasksFile) =>
        LET tasks == tasksFile.tasks
            pending == PendingPositions(tasks)
        IN  /\ outcome.message = "all-complete-or-in-progress" <=> pending = {}
            /\ outcome.message = "all-pending-blocked" <=>
                  /\ pending # {}
                  /\ \A i \in pending : ~AllDependenciesDone(tasks[i], tasks)

----------------------------------------------------------------------------
(* Claims on two set-status processes (SpecRace) *)

\* The position of the task the process names.
TargetOf(p) == {i \in 1..Len(tasksFile.tasks) : mem[p].ids = <<BareToken(tasksFile.tasks[i].id)>>}

\* Both processes are over and each named an existing task, not the same one.
BothDone ==
    /\ \A p \in Invocations : mem[p].pc = "done" /\ TargetOf(p) # {}
    /\ \A p, q \in Invocations : p # q => TargetOf(p) \cap TargetOf(q) = {}

\* C20: two set-status processes that name different existing tasks.  When
\* both read the store before either writes, the store after both writes
\* holds the change of the process that wrote last only: the task the other
\* named is as the last writer read it, although the other reported success.
\* When one writes before the other reads, both changes are in the store.
C20_LostUpdate ==
    BothDone =>
        \A p, q \in Invocations :
            p # q /\ mem[p].savedAt < mem[q].savedAt =>
                /\ mem[p].out.message = "updated" /\ mem[q].out.message = "updated"
                /\ \A j \in TargetOf(q) : tasksFile.tasks[j].status = mem[q].status
                /\ IF mem[q].loadedAt < mem[p].savedAt
                   THEN \A i \in TargetOf(p) :
                            tasksFile.tasks[i] = mem[q].tasksData.tasks[i]
                   ELSE \A i \in TargetOf(p) :
                            /\ tasksFile.tasks[i].status = mem[p].status
                            /\ tasksFile.tasks[i].updatedAt = mem[p].savedAt

\* Both processes read before either wrote; the first to write set its task
\* done and reported success, and that task is pending in the store.
C20_Witness ==
    /\ BothDone
    /\ \E p, q \in Invocations :
          /\ mem[p].savedAt < mem[q].savedAt
          /\ mem[q].loadedAt < mem[p].savedAt
          /\ mem[p].status = "done"
          /\ mem[p].out.message = "updated"
          /\ mem[p].out.wrote
          /\ \A i \in TargetOf(p) :
                /\ tasksFile.tasks[i].status = "pending"
                /\ tasksFile.tasks[i].updatedAt = 0

----------------------------------------------------------------------------
(* Claims on the work loop (SpecLoop) *)

\* The pairs (i, j) of positions where task i lists the id of task j.
DependencyEdges(tasks) ==
    {e \in (1..Len(tasks)) \X (1..Len(tasks)) :
        tasks[e[2]].id \in DependencyIds(tasks[e[1]])}

\* Every dependency id is the id of a task and no task depends on itself
\* through any chain.
WellFounded(tasks) ==
    /\ \A i \in 1..Len(tasks) : ~HasDangling(tasks[i], tasks)
    /\ \A i \in 1..Len(tasks) : <<i, i>> \notin Chains(DependencyEdges(tasks), Len(tasks))

NotDone(tasks) == {i \in 1..Len(tasks) : tasks[i].status # "done"}

\* C21: where every dependency id names a task and the dependencies are
\* acyclic, getNextTask returns a task whenever a task is not done; each
\* turn of the loop "set what getNextTask returns to done" succeeds and
\* leaves one task fewer not done, so after exactly as many turns as there
\* were tasks not done all tasks are done and getNextTask returns null.
C21_LoopCompletes ==
    WellFounded(mem) =>
        LET tasks == tasksFile.tasks
            nextTask == getNextTask(tasks).value
        IN  /\ Cardinality(NotDone(tasks)) + clock = Cardinality(NotDone(mem))
            /\ NotDone(tasks) # {} => nextTask # Null /\ nextTask.status # "done"
            /\ NotDone(tasks) = {} => nextTask = Null
            /\ clock > 0 => outcome.message = "updated" /\ outcome.count = 1

\* Three tasks, none done at first, task 1 waiting on tasks 2 and 3 and task
\* 2 on task 3: the loop has set task 3, then task 2, then task 1 to done.
C21_Witness ==
    /\ clock = 3
    /\ Len(mem) = 3
    /\ NotDone(mem) = {1, 2, 3}
    /\ mem[1].dependencies = <<2, 3>>
    /\ mem[2].dependencies = <<3>>
    /\ mem[3].dependencies = <<>>
    /\ NotDone(tasksFile.tasks) = {}
    /\ tasksFile.tasks[3].updatedAt = 1
    /\ tasksFile.tasks[2].updatedAt = 2
    /\ tasksFile.tasks[1].updatedAt = 3
    /\ getNextTask(tasksFile.tasks).value = Null

----------------------------------------------------------------------------
(* Claim on what set-status leaves alone (Spec) *)

\* The positions of the tasks whose id the list gives: as a bare token, or
\* as the integer a token P.S starts with.
NamedByList(tasks, tokens) ==
    {i \in 1..Len(tasks) :
        \E k \in 1..Len(tokens) :
            \/ tokens[k] = BareToken(tasks[i].id)
            \/ \E sub \in 1..(MaxSubtasks + 1) : tokens[k] = DottedToken(tasks[i].id, sub)}

\* The members of a task other than status and updatedAt.
Frame(t) == [f \in DOMAIN t \ {"status", "updatedAt"} |-> t[f]]

====
